---- MODULE Spec2Model ----
(***************************************************************************)
(* IdeaGenie front end (App component): the request/response               *)
(* reconciliation done by onGenerate, onSave, onShare, onExport and the    *)
(* initial saved-ideas load.                                               *)
(*                                                                         *)
(* A handler runs to its first await in one step (React flushes the state  *)
(* updates of an event before the next event is dispatched); every await   *)
(* of a remote call is a suspension point, and the continuation that runs  *)
(* when the call resolves or rejects is one more step.  The remote service *)
(* is opaque: what it answers is chosen when the answer is delivered.      *)
(*                                                                         *)
(* Events reach the handlers the way the markup wires them: onGenerate is  *)
(* the form's submit handler (the disabled submit button does not remove   *)
(* it), onSave/onShare/onExport are click handlers of buttons that exist   *)
(* only for the records on display and are disabled by the busy flags.     *)
(* Theme, tone and the plain Copy button touch none of the state below and *)
(* are left out.                                                           *)
(***************************************************************************)
EXTENDS Integers, Sequences, FiniteSets, TLC

VARIABLES
    topic,              \* useState(""): the textarea's text, a sequence of characters
    count,              \* useState(6): the requested number of ideas
    ideas,              \* useState([]): sequence of {id, text, savedId, savedAt}
    generationStatus,   \* idle | loading | error | success
    generationError,
    savedIdeas,         \* the saved-ideas panel's list
    savedStatus,        \* idle | loading | error | success
    savedError,
    busyByIdeaId,       \* id -> {saving, sharing, exporting}
    errorByIdeaId,      \* id -> message
    notice,             \* {type, message} or NoNotice
    loadCall,           \* the mount effect's listSavedIdeas() is in flight
    genCalls,           \* onGenerate activations suspended at generateIdeas()
    saveCalls,          \* onSave activations suspended at saveIdea() or listSavedIdeas()
    shareCalls,         \* onShare activations suspended at shareIdea() or copyToClipboard()
    exportCalls,        \* onExport activations suspended at exportIdea()
    clipboard,          \* what copyToClipboard last wrote
    downloads,          \* files handed to downloadTextFile, in order
    nextId,             \* local ids minted so far + 1
    now,                \* the clock new Date() reads
    nGenerate,          \* generateIdeas() calls issued so far
    nActs,              \* clicks on Save, Share and Export handled so far
    drawn               \* the generate response fixed in advance (NormSpec only)

vars == <<topic, count, ideas, generationStatus, generationError, savedIdeas,
          savedStatus, savedError, busyByIdeaId, errorByIdeaId, notice, loadCall,
          genCalls, saveCalls, shareCalls, exportCalls, clipboard, downloads,
          nextId, now, nGenerate, nActs, drawn>>

---------------------------------------------------------------------------
(* Bounds of the model.                                                    *)

MaxItems == 4       \* longest list a generate response carries
MaxBatch == 2       \* longest list a generate response carries in a full session
MaxGenerate == 2    \* generateIdeas() calls per session
MaxActs == 2        \* clicks on Save, Share and Export per session

---------------------------------------------------------------------------
(* JavaScript values.                                                      *)

Absent == "<absent>"    \* undefined: a field that is not there

Truthy(v) == v # Absent /\ v # ""

\* a || b on strings
OrElse(a, b) == IF Truthy(a) THEN a ELSE b

Max(a, b) == IF a >= b THEN a ELSE b

Min(a, b) == IF a <= b THEN a ELSE b

RECURSIVE TrimStart(_)
TrimStart(s) == IF s # <<>> /\ Head(s) = " " THEN TrimStart(Tail(s)) ELSE s

RECURSIVE TrimEnd(_)
TrimEnd(s) ==
    IF s # <<>> /\ s[Len(s)] = " " THEN TrimEnd(SubSeq(s, 1, Len(s) - 1)) ELSE s

\* String.prototype.trim
Trim(s) == TrimEnd(TrimStart(s))

\* the texts the textarea is given
Topics == { <<>>, <<" ", "a", "b">>, <<" ", "a", "b", "c", " ">> }

\* the <option> values of the count select
Counts == {3, 6, 9, 12}

SeqsUpTo(S, n) == UNION { [1..k -> S] : k \in 0..n }

---------------------------------------------------------------------------
(* What the remote service answers.                                        *)

\* an element of an idea list: a string, an object with text/idea, or null
StrItem(s) == [kind |-> "string", str |-> s, text |-> Absent, idea |-> Absent]

ObjItem(t, i) == [kind |-> "object", str |-> Absent, text |-> t, idea |-> i]

NullItem == [kind |-> "null", str |-> Absent, text |-> Absent, idea |-> Absent]

\* a field of a response object: not there, an array, or another truthy value
NoField == [kind |-> "absent", arr |-> <<>>]

ArrField(l) == [kind |-> "array", arr |-> l]

OtherField == [kind |-> "other", arr |-> <<>>]

\* the body generateIdeas() or listSavedIdeas() resolves to
ArrayBody(l) == [kind |-> "array", arr |-> l, ideas |-> NoField, items |-> NoField]

ObjectBody(ideasField, itemsField) ==
    [kind |-> "object", arr |-> <<>>, ideas |-> ideasField, items |-> itemsField]

NullBody == [kind |-> "null", arr |-> <<>>, ideas |-> NoField, items |-> NoField]

\* the message a rejected call carries (request(): the timeout's; a non-2xx
\* status rejects the same way with another text)
TimedOutMessage == "Request timed out. Please try again."

ErrorMessages == { TimedOutMessage }

---------------------------------------------------------------------------
(* onGenerate's normalization of the response.                             *)

\* (Array.isArray(result) && result) || result?.ideas || result?.items || []
IdeaList(result) ==
    IF result.kind = "array" THEN ArrField(result.arr)
    ELSE IF result.ideas.kind # "absent" THEN result.ideas
    ELSE IF result.items.kind # "absent" THEN result.items
    ELSE ArrField(<<>>)

\* faulty variant of ItemText: an object's `text` is not probed
ItemTextIdeaOnly(item) ==
    IF item.kind = "string" THEN item.str
    ELSE IF item.kind = "null" THEN ""
    ELSE OrElse(item.idea, "")

\* typeof item === "string" ? item : item?.text || item?.idea || ""
ItemText(item) ==
    IF item.kind = "string" THEN item.str
    ELSE IF item.kind = "null" THEN ""
    ELSE OrElse(item.text, OrElse(item.idea, ""))

\* Math.max(1, Number(count) || 6)
SliceCount(c) == Max(1, IF c = 0 THEN 6 ELSE c)

Take(s, n) == SubSeq(s, 1, Min(n, Len(s)))

\* list.map(...).filter(Boolean).slice(0, ...)
NormalizedTexts(result, c) ==
    LET l == IdeaList(result).arr
        texts == [i \in 1..Len(l) |-> ItemText(l[i])]
    IN  Take(SelectSeq(texts, Truthy), SliceCount(c))

\* list.map is not a function: the chosen field is truthy and no array
NormalizeThrows(result) == IdeaList(result).kind = "other"

\* `local_${Date.now()}_${Math.random()...}`: the n-th id minted in the session
makeLocalId(n) == "local_" \o ToString(n)

\* .map((text) => ({ id: makeLocalId(), text }))
NewIdeas(texts, first) ==
    [i \in 1..Len(texts) |->
        [id |-> makeLocalId(first + i - 1), text |-> texts[i],
         savedId |-> Absent, savedAt |-> Absent]]

---------------------------------------------------------------------------
(* The component's state helpers.                                          *)

NoNotice == [type |-> "none", message |-> ""]

\* showNotice(type, message)
showNotice(type, message) == [type |-> type, message |-> message]

NoBusy == [saving |-> FALSE, sharing |-> FALSE, exporting |-> FALSE]

\* busyByIdeaId[id] || {}
BusyOf(id) == IF id \in DOMAIN busyByIdeaId THEN busyByIdeaId[id] ELSE NoBusy

\* errorByIdeaId[id] || ""
ErrorOf(id) == IF id \in DOMAIN errorByIdeaId THEN errorByIdeaId[id] ELSE ""

\* faulty variant of setIdeaBusy: the patch replaces the record's flags instead
\* of being merged into them
setIdeaBusyReplace(prev, id, kind, value) ==
    [x \in DOMAIN prev \cup {id} |->
        IF x = id THEN [NoBusy EXCEPT ![kind] = value] ELSE prev[x]]

\* setIdeaBusy(id, { [kind]: value }) applied to prev
setIdeaBusy(prev, id, kind, value) ==
    [x \in DOMAIN prev \cup {id} |->
        IF x = id
        THEN [(IF id \in DOMAIN prev THEN prev[id] ELSE NoBusy) EXCEPT ![kind] = value]
        ELSE prev[x]]

\* setIdeaError(id, message) applied to prev
setIdeaError(prev, id, message) ==
    [x \in DOMAIN prev \cup {id} |-> IF x = id THEN OrElse(message, "") ELSE prev[x]]

\* the records on display: the idea list is rendered unless a generation is loading
Displayed == IF generationStatus # "loading" THEN 1..Len(ideas) ELSE {}

\* canGenerate (the submit button's enabling condition)
canGenerate == Len(Trim(topic)) >= 3 /\ generationStatus # "loading"

\* the state after the first render and its mount effect, with the form holding
\* topic t and count c
Start(t, c, d) ==
    /\ topic = t
    /\ count = c
    /\ ideas = <<>>
    /\ generationStatus = "idle"
    /\ generationError = ""
    /\ savedIdeas = <<>>
    /\ savedStatus = "loading"
    /\ savedError = ""
    /\ busyByIdeaId = [x \in {} |-> NoBusy]
    /\ errorByIdeaId = [x \in {} |-> ""]
    /\ notice = NoNotice
    /\ loadCall = TRUE
    /\ genCalls = {}
    /\ saveCalls = {}
    /\ shareCalls = {}
    /\ exportCalls = {}
    /\ clipboard = Absent
    /\ downloads = <<>>
    /\ nextId = 1
    /\ now = 1
    /\ nGenerate = 0
    /\ nActs = 0
    /\ drawn = d

Init == Start(<<>>, 6, NullBody)

---------------------------------------------------------------------------
(* The form controls.                                                      *)

\* onChange of the textarea (followed while a generation may still be submitted)
setTopic(t) ==
    /\ t # topic
    /\ nGenerate < MaxGenerate
    /\ topic' = t
    /\ UNCHANGED <<count, ideas, generationStatus, generationError, savedIdeas,
                   savedStatus, savedError, busyByIdeaId, errorByIdeaId, notice,
                   loadCall, genCalls, saveCalls, shareCalls, exportCalls,
                   clipboard, downloads, nextId, now, nGenerate, nActs, drawn>>

\* onChange of the count select (followed while a generation may still be submitted)
setCount(c) ==
    /\ c # count
    /\ nGenerate < MaxGenerate
    /\ count' = c
    /\ UNCHANGED <<topic, ideas, generationStatus, generationError, savedIdeas,
                   savedStatus, savedError, busyByIdeaId, errorByIdeaId, notice,
                   loadCall, genCalls, saveCalls, shareCalls, exportCalls,
                   clipboard, downloads, nextId, now, nGenerate, nActs, drawn>>

\* the timer showNotice() starts: setNotice(null) 3.5 s after the last notice
NoticeTimeout ==
    /\ notice # NoNotice
    /\ notice' = NoNotice
    /\ UNCHANGED <<topic, count, ideas, generationStatus, generationError,
                   savedIdeas, savedStatus, savedError, busyByIdeaId,
                   errorByIdeaId, loadCall, genCalls, saveCalls, shareCalls,
                   exportCalls, clipboard, downloads, nextId, now, nGenerate,
                   nActs, drawn>>

---------------------------------------------------------------------------
(* onGenerate.                                                             *)

\* submit of the form: the validation's early return, or up to
\* `await generateIdeas({ topic: trimmed, tone, count })`
onGenerate ==
    /\ IF Len(Trim(topic)) < 3
       THEN /\ generationStatus' = "error"
            /\ generationError' = "Please enter at least 3 characters."
            /\ UNCHANGED <<ideas, nGenerate, genCalls>>
       ELSE /\ nGenerate < MaxGenerate
            /\ generationStatus' = "loading"
            /\ generationError' = ""
            /\ ideas' = <<>>
            /\ nGenerate' = nGenerate + 1
            /\ genCalls' = genCalls \cup {[n |-> nGenerate + 1, count |-> count]}
    /\ UNCHANGED <<topic, count, savedIdeas, savedStatus, savedError,
                   busyByIdeaId, errorByIdeaId, notice, loadCall, saveCalls,
                   shareCalls, exportCalls, clipboard, downloads, nextId, now,
                   nActs, drawn>>

\* generateIdeas() resolved with `result`: the rest of the try block, or the
\* catch block when the normalization throws
GenerateResolve(c, result) ==
    /\ c \in genCalls
    /\ genCalls' = genCalls \ {c}
    /\ IF NormalizeThrows(result)
       THEN /\ generationStatus' = "error"
            /\ generationError' = "list.map is not a function"
            /\ UNCHANGED <<ideas, notice, nextId>>
       ELSE LET normalized == NewIdeas(NormalizedTexts(result, c.count), nextId)
            IN  /\ ideas' = normalized
                /\ nextId' = nextId + Len(normalized)
                /\ generationStatus' = "success"
                /\ generationError' = generationError
                /\ notice' = showNotice("success", "Ideas generated.")
    /\ UNCHANGED <<topic, count, savedIdeas, savedStatus, savedError,
                   busyByIdeaId, errorByIdeaId, loadCall, saveCalls, shareCalls,
                   exportCalls, clipboard, downloads, now, nGenerate, nActs,
                   drawn>>

\* generateIdeas() rejected: the catch block
GenerateReject(c, message) ==
    /\ c \in genCalls
    /\ genCalls' = genCalls \ {c}
    /\ generationStatus' = "error"
    /\ generationError' = OrElse(message, "Failed to generate ideas.")
    /\ UNCHANGED <<topic, count, ideas, savedIdeas, savedStatus, savedError,
                   busyByIdeaId, errorByIdeaId, notice, loadCall, saveCalls,
                   shareCalls, exportCalls, clipboard, downloads, nextId, now,
                   nGenerate, nActs, drawn>>

---------------------------------------------------------------------------
(* The saved-ideas listing.                                                *)

\* Array.isArray(data) ? data : data?.items || []
SavedItems(data) ==
    IF data.kind = "array" THEN data.arr
    ELSE IF data.items.kind = "array" THEN data.items.arr
    ELSE <<>>

SavedItem(i, t) == [id |-> i, text |-> t]

\* the bodies listSavedIdeas() resolves to
ListBodies ==
    { ArrayBody(<<>>),
      ObjectBody(NoField, ArrField(<<SavedItem("r1", "a")>>)),
      NullBody }

\* the mount effect's listSavedIdeas() resolved
LoadResolve(data) ==
    /\ loadCall
    /\ loadCall' = FALSE
    /\ savedIdeas' = SavedItems(data)
    /\ savedStatus' = "success"
    /\ UNCHANGED <<topic, count, ideas, generationStatus, generationError,
                   savedError, busyByIdeaId, errorByIdeaId, notice, genCalls,
                   saveCalls, shareCalls, exportCalls, clipboard, downloads,
                   nextId, now, nGenerate, nActs, drawn>>

\* the mount effect's listSavedIdeas() rejected
LoadReject(message) ==
    /\ loadCall
    /\ loadCall' = FALSE
    /\ savedStatus' = "error"
    /\ savedError' = OrElse(message, "Failed to load saved ideas.")
    /\ UNCHANGED <<topic, count, ideas, generationStatus, generationError,
                   savedIdeas, busyByIdeaId, errorByIdeaId, notice, genCalls,
                   saveCalls, shareCalls, exportCalls, clipboard, downloads,
                   nextId, now, nGenerate, nActs, drawn>>

---------------------------------------------------------------------------
(* onSave.                                                                 *)

\* the body saveIdea() resolves to: the fields onSave probes
SaveBody(id, ideaDotId, idea_id, ideaId) ==
    [id |-> id, ideaDotId |-> ideaDotId, idea_id |-> idea_id, ideaId |-> ideaId]

SaveBodies ==
    { SaveBody("r1", Absent, Absent, Absent),
      SaveBody("r2", Absent, Absent, "r1"),
      SaveBody(Absent, "r2", "r1", Absent),
      SaveBody("", Absent, "r1", "r2"),
      SaveBody(Absent, Absent, Absent, "r2"),
      SaveBody(Absent, Absent, Absent, Absent) }

\* faulty variant of ResponseId: only the top-level `id` is probed
ResponseIdTopLevelOnly(data) == data.id

\* data?.id || data?.idea?.id || data?.idea_id || data?.ideaId
ResponseId(data) ==
    OrElse(data.id, OrElse(data.ideaDotId, OrElse(data.idea_id, data.ideaId)))

\* new Date().toISOString()
toISOString(t) == "t" \o ToString(t)

\* faulty variant of MarkSaved: no fallback when the response carries no id
MarkSavedResponseIdOnly(it, savedId, t) ==
    [it EXCEPT !.savedId = savedId, !.savedAt = toISOString(t)]

\* { ...it, savedId: savedId || it.savedId || it.id, savedAt: new Date().toISOString() }
MarkSaved(it, savedId, t) ==
    [it EXCEPT !.savedId = OrElse(savedId, OrElse(it.savedId, it.id)),
               !.savedAt = toISOString(t)]

\* faulty variant of SaveEnabled: the Save button is never disabled
SaveAlwaysEnabled(id) == TRUE

\* disabled={busy.saving} on the Save button
SaveEnabled(id) == ~BusyOf(id).saving

\* faulty variant of onSave: the saving flag is not set
onSaveWithoutBusy(i) ==
    /\ i \in Displayed
    /\ SaveEnabled(ideas[i].id)
    /\ nActs < MaxActs
    /\ nActs' = nActs + 1
    /\ errorByIdeaId' = setIdeaError(errorByIdeaId, ideas[i].id, "")
    /\ saveCalls' = saveCalls \cup
            {[n |-> nActs + 1, id |-> ideas[i].id, phase |-> "save"]}
    /\ UNCHANGED <<topic, count, ideas, generationStatus, generationError,
                   savedIdeas, savedStatus, savedError, busyByIdeaId, notice,
                   loadCall, genCalls, shareCalls, exportCalls, clipboard,
                   downloads, nextId, now, nGenerate, drawn>>

\* click on Save: up to `await saveIdea({ topic: topic.trim(), idea: idea.text })`
onSave(i) ==
    /\ i \in Displayed
    /\ SaveEnabled(ideas[i].id)
    /\ nActs < MaxActs
    /\ nActs' = nActs + 1
    /\ errorByIdeaId' = setIdeaError(errorByIdeaId, ideas[i].id, "")
    /\ busyByIdeaId' = setIdeaBusy(busyByIdeaId, ideas[i].id, "saving", TRUE)
    /\ saveCalls' = saveCalls \cup
            {[n |-> nActs + 1, id |-> ideas[i].id, phase |-> "save"]}
    /\ UNCHANGED <<topic, count, ideas, generationStatus, generationError,
                   savedIdeas, savedStatus, savedError, notice, loadCall,
                   genCalls, shareCalls, exportCalls, clipboard, downloads,
                   nextId, now, nGenerate, drawn>>

\* faulty variant of SaveResolve: a record that is no longer in the collection
\* is put back, saved
SaveResolveUpsert(c, data) ==
    /\ c \in saveCalls
    /\ c.phase = "save"
    /\ notice' = showNotice("success", "Saved.")
    /\ ideas' = IF \E k \in 1..Len(ideas) : ideas[k].id = c.id
                THEN [k \in 1..Len(ideas) |->
                        IF ideas[k].id = c.id
                        THEN MarkSaved(ideas[k], ResponseId(data), now)
                        ELSE ideas[k]]
                ELSE Append(ideas,
                        MarkSaved([id |-> c.id, text |-> "a", savedId |-> Absent,
                                   savedAt |-> Absent], ResponseId(data), now))
    /\ now' = now + 1
    /\ saveCalls' = (saveCalls \ {c}) \cup {[c EXCEPT !.phase = "list"]}
    /\ UNCHANGED <<topic, count, generationStatus, generationError, savedIdeas,
                   savedStatus, savedError, busyByIdeaId, errorByIdeaId,
                   loadCall, genCalls, shareCalls, exportCalls, clipboard,
                   downloads, nextId, nGenerate, nActs, drawn>>

\* saveIdea() resolved: up to `await listSavedIdeas()`
SaveResolve(c, data) ==
    /\ c \in saveCalls
    /\ c.phase = "save"
    /\ notice' = showNotice("success", "Saved.")
    /\ ideas' = [k \in 1..Len(ideas) |->
                    IF ideas[k].id = c.id
                    THEN MarkSaved(ideas[k], ResponseId(data), now)
                    ELSE ideas[k]]
    /\ now' = now + 1
    /\ saveCalls' = (saveCalls \ {c}) \cup {[c EXCEPT !.phase = "list"]}
    /\ UNCHANGED <<topic, count, generationStatus, generationError, savedIdeas,
                   savedStatus, savedError, busyByIdeaId, errorByIdeaId,
                   loadCall, genCalls, shareCalls, exportCalls, clipboard,
                   downloads, nextId, nGenerate, nActs, drawn>>

\* faulty variant of SaveReject: a failed save also rolls the record back to unsaved
SaveRejectRollback(c, message) ==
    /\ c \in saveCalls
    /\ c.phase = "save"
    /\ saveCalls' = saveCalls \ {c}
    /\ ideas' = [k \in 1..Len(ideas) |->
                    IF ideas[k].id = c.id
                    THEN [ideas[k] EXCEPT !.savedId = Absent, !.savedAt = Absent]
                    ELSE ideas[k]]
    /\ errorByIdeaId' = setIdeaError(errorByIdeaId, c.id, OrElse(message, "Failed to save."))
    /\ notice' = showNotice("error", "Save failed.")
    /\ busyByIdeaId' = setIdeaBusy(busyByIdeaId, c.id, "saving", FALSE)
    /\ UNCHANGED <<topic, count, generationStatus, generationError,
                   savedIdeas, savedStatus, savedError, loadCall, genCalls,
                   shareCalls, exportCalls, clipboard, downloads, nextId, now,
                   nGenerate, nActs, drawn>>

\* faulty variant of SaveReject: the finally block is missing
SaveRejectKeepsBusy(c, message) ==
    /\ c \in saveCalls
    /\ c.phase = "save"
    /\ saveCalls' = saveCalls \ {c}
    /\ errorByIdeaId' = setIdeaError(errorByIdeaId, c.id, OrElse(message, "Failed to save."))
    /\ notice' = showNotice("error", "Save failed.")
    /\ UNCHANGED <<topic, count, ideas, generationStatus, generationError,
                   savedIdeas, savedStatus, savedError, busyByIdeaId, loadCall,
                   genCalls, shareCalls, exportCalls, clipboard, downloads,
                   nextId, now, nGenerate, nActs, drawn>>

\* saveIdea() rejected: the outer catch, then finally
SaveReject(c, message) ==
    /\ c \in saveCalls
    /\ c.phase = "save"
    /\ saveCalls' = saveCalls \ {c}
    /\ errorByIdeaId' = setIdeaError(errorByIdeaId, c.id, OrElse(message, "Failed to save."))
    /\ notice' = showNotice("error", "Save failed.")
    /\ busyByIdeaId' = setIdeaBusy(busyByIdeaId, c.id, "saving", FALSE)
    /\ UNCHANGED <<topic, count, ideas, generationStatus, generationError,
                   savedIdeas, savedStatus, savedError, loadCall, genCalls,
                   shareCalls, exportCalls, clipboard, downloads, nextId, now,
                   nGenerate, nActs, drawn>>

\* the refresh's listSavedIdeas() resolved: the inner try, then finally
RefreshResolve(c, data) ==
    /\ c \in saveCalls
    /\ c.phase = "list"
    /\ saveCalls' = saveCalls \ {c}
    /\ savedIdeas' = SavedItems(data)
    /\ savedStatus' = "success"
    /\ busyByIdeaId' = setIdeaBusy(busyByIdeaId, c.id, "saving", FALSE)
    /\ UNCHANGED <<topic, count, ideas, generationStatus, generationError,
                   savedError, errorByIdeaId, notice, loadCall, genCalls,
                   shareCalls, exportCalls, clipboard, downloads, nextId, now,
                   nGenerate, nActs, drawn>>

\* faulty variant of RefreshReject: the failure is handled like the mount
\* effect's, marking the panel unavailable
RefreshRejectMarksError(c) ==
    /\ c \in saveCalls
    /\ c.phase = "list"
    /\ saveCalls' = saveCalls \ {c}
    /\ savedStatus' = "error"
    /\ savedError' = "Failed to load saved ideas."
    /\ busyByIdeaId' = setIdeaBusy(busyByIdeaId, c.id, "saving", FALSE)
    /\ UNCHANGED <<topic, count, ideas, generationStatus, generationError,
                   savedIdeas, errorByIdeaId, notice,
                   loadCall, genCalls, shareCalls, exportCalls, clipboard,
                   downloads, nextId, now, nGenerate, nActs, drawn>>

\* faulty variant of RefreshReject: the finally block is missing
RefreshRejectKeepsBusy(c) ==
    /\ c \in saveCalls
    /\ c.phase = "list"
    /\ saveCalls' = saveCalls \ {c}
    /\ UNCHANGED <<topic, count, ideas, generationStatus, generationError,
                   savedIdeas, savedStatus, savedError, busyByIdeaId,
                   errorByIdeaId, notice, loadCall, genCalls,
                   shareCalls, exportCalls, clipboard, downloads, nextId, now,
                   nGenerate, nActs, drawn>>

\* the refresh's listSavedIdeas() rejected: `catch { // ignore }`, then finally
RefreshReject(c) ==
    /\ c \in saveCalls
    /\ c.phase = "list"
    /\ saveCalls' = saveCalls \ {c}
    /\ busyByIdeaId' = setIdeaBusy(busyByIdeaId, c.id, "saving", FALSE)
    /\ UNCHANGED <<topic, count, ideas, generationStatus, generationError,
                   savedIdeas, savedStatus, savedError, errorByIdeaId, notice,
                   loadCall, genCalls, shareCalls, exportCalls, clipboard,
                   downloads, nextId, now, nGenerate, nActs, drawn>>

---------------------------------------------------------------------------
(* onShare.                                                                *)

\* the body shareIdea() resolves to: the fields onShare probes
ShareBody(url, share_url, shareUrl, link) ==
    [url |-> url, share_url |-> share_url, shareUrl |-> shareUrl, link |-> link]

ShareBodies ==
    { ShareBody("u1", Absent, Absent, Absent),
      ShareBody(Absent, "u2", "u1", Absent),
      ShareBody("", Absent, Absent, "u2"),
      ShareBody(Absent, Absent, Absent, Absent),
      ShareBody("", "", "", "") }

\* data?.url || data?.share_url || data?.shareUrl || data?.link || ""
ShareUrl(data) ==
    OrElse(data.url, OrElse(data.share_url, OrElse(data.shareUrl, OrElse(data.link, ""))))

\* disabled={busy.sharing} on the Share button
ShareEnabled(id) == ~BusyOf(id).sharing

\* faulty variant of onShare: the savedId check is missing
onShareUnchecked(i) ==
    /\ i \in Displayed
    /\ ShareEnabled(ideas[i].id)
    /\ nActs < MaxActs
    /\ nActs' = nActs + 1
    /\ errorByIdeaId' = setIdeaError(errorByIdeaId, ideas[i].id, "")
    /\ busyByIdeaId' = setIdeaBusy(busyByIdeaId, ideas[i].id, "sharing", TRUE)
    /\ shareCalls' = shareCalls \cup
            {[n |-> nActs + 1, id |-> ideas[i].id, phase |-> "share", url |-> ""]}
    /\ UNCHANGED <<topic, count, ideas, generationStatus, generationError,
                   savedIdeas, savedStatus, savedError, notice, loadCall,
                   genCalls, saveCalls, exportCalls, clipboard, downloads,
                   nextId, now, nGenerate, drawn>>

\* click on Share: the early return for a record without savedId, or up to
\* `await shareIdea({ ideaId: id })`
onShare(i) ==
    /\ i \in Displayed
    /\ ShareEnabled(ideas[i].id)
    /\ nActs < MaxActs
    /\ nActs' = nActs + 1
    /\ IF ~Truthy(ideas[i].savedId)
       THEN /\ errorByIdeaId' =
                    setIdeaError(errorByIdeaId, ideas[i].id, "Save the idea before sharing.")
            /\ UNCHANGED <<busyByIdeaId, shareCalls>>
       ELSE /\ errorByIdeaId' = setIdeaError(errorByIdeaId, ideas[i].id, "")
            /\ busyByIdeaId' = setIdeaBusy(busyByIdeaId, ideas[i].id, "sharing", TRUE)
            /\ shareCalls' = shareCalls \cup
                    {[n |-> nActs + 1, id |-> ideas[i].id, phase |-> "share", url |-> ""]}
    /\ UNCHANGED <<topic, count, ideas, generationStatus, generationError,
                   savedIdeas, savedStatus, savedError, notice, loadCall,
                   genCalls, saveCalls, exportCalls, clipboard, downloads,
                   nextId, now, nGenerate, drawn>>

\* faulty variant of ShareResolve: the `if (!url)` check is missing
ShareResolveCopiesAnyway(c, data) ==
    /\ c \in shareCalls
    /\ c.phase = "share"
    /\ shareCalls' = (shareCalls \ {c}) \cup
            {[c EXCEPT !.phase = "copy", !.url = ShareUrl(data)]}
    /\ UNCHANGED <<topic, count, ideas, generationStatus, generationError,
                   savedIdeas, savedStatus, savedError, busyByIdeaId,
                   errorByIdeaId, notice, loadCall, genCalls, saveCalls,
                   exportCalls, clipboard, downloads, nextId, now, nGenerate,
                   nActs, drawn>>

\* shareIdea() resolved: up to `await copyToClipboard(url)`, or the throw of
\* "Backend did not return a share URL." with the catch and finally
ShareResolve(c, data) ==
    /\ c \in shareCalls
    /\ c.phase = "share"
    /\ IF Truthy(ShareUrl(data))
       THEN /\ shareCalls' = (shareCalls \ {c}) \cup
                    {[c EXCEPT !.phase = "copy", !.url = ShareUrl(data)]}
            /\ UNCHANGED <<errorByIdeaId, notice, busyByIdeaId>>
       ELSE /\ shareCalls' = shareCalls \ {c}
            /\ errorByIdeaId' =
                    setIdeaError(errorByIdeaId, c.id, "Backend did not return a share URL.")
            /\ notice' = showNotice("error", "Share failed.")
            /\ busyByIdeaId' = setIdeaBusy(busyByIdeaId, c.id, "sharing", FALSE)
    /\ UNCHANGED <<topic, count, ideas, generationStatus, generationError,
                   savedIdeas, savedStatus, savedError, loadCall, genCalls,
                   saveCalls, exportCalls, clipboard, downloads, nextId, now,
                   nGenerate, nActs, drawn>>

\* copyToClipboard(url) resolved: the rest of the try, then finally
CopyResolve(c) ==
    /\ c \in shareCalls
    /\ c.phase = "copy"
    /\ shareCalls' = shareCalls \ {c}
    /\ clipboard' = c.url
    /\ notice' = showNotice("success", "Share link copied to clipboard.")
    /\ busyByIdeaId' = setIdeaBusy(busyByIdeaId, c.id, "sharing", FALSE)
    /\ UNCHANGED <<topic, count, ideas, generationStatus, generationError,
                   savedIdeas, savedStatus, savedError, errorByIdeaId, loadCall,
                   genCalls, saveCalls, exportCalls, downloads, nextId, now,
                   nGenerate, nActs, drawn>>

\* shareIdea() or copyToClipboard() rejected: the catch, then finally
ShareReject(c, message) ==
    /\ c \in shareCalls
    /\ shareCalls' = shareCalls \ {c}
    /\ errorByIdeaId' = setIdeaError(errorByIdeaId, c.id, OrElse(message, "Failed to share."))
    /\ notice' = showNotice("error", "Share failed.")
    /\ busyByIdeaId' = setIdeaBusy(busyByIdeaId, c.id, "sharing", FALSE)
    /\ UNCHANGED <<topic, count, ideas, generationStatus, generationError,
                   savedIdeas, savedStatus, savedError, loadCall, genCalls,
                   saveCalls, exportCalls, clipboard, downloads, nextId, now,
                   nGenerate, nActs, drawn>>

---------------------------------------------------------------------------
(* onExport.                                                               *)

\* the formats the Export buttons pass
ButtonFormats == {"txt", "json"}

\* what downloadTextFile() is handed
File(origin, id, format) == [origin |-> origin, id |-> id, format |-> format]

\* disabled={busy.exporting} on the Export buttons
ExportEnabled(id) == ~BusyOf(id).exporting

\* every format onExport tells apart (the file name's `format === "md" ? ...`)
Formats == {"txt", "json", "md"}

\* faulty variant of onExport: the savedId check is missing
onExportUnchecked(i, format) ==
    /\ i \in Displayed
    /\ ExportEnabled(ideas[i].id)
    /\ nActs < MaxActs
    /\ nActs' = nActs + 1
    /\ errorByIdeaId' = setIdeaError(errorByIdeaId, ideas[i].id, "")
    /\ busyByIdeaId' = setIdeaBusy(busyByIdeaId, ideas[i].id, "exporting", TRUE)
    /\ exportCalls' = exportCalls \cup
            {[n |-> nActs + 1, id |-> ideas[i].id, format |-> format]}
    /\ UNCHANGED <<topic, count, ideas, generationStatus, generationError,
                   savedIdeas, savedStatus, savedError, notice, loadCall,
                   genCalls, saveCalls, shareCalls, clipboard, downloads,
                   nextId, now, nGenerate, drawn>>

\* onExport(idea, format): the client-side fallback for a record without
\* savedId, or up to `await exportIdea({ ideaId: id, format })`
onExport(i, format) ==
    /\ i \in Displayed
    /\ ExportEnabled(ideas[i].id)
    /\ nActs < MaxActs
    /\ nActs' = nActs + 1
    /\ IF ~Truthy(ideas[i].savedId)
       THEN /\ IF format \in {"txt", "json"}
               THEN /\ downloads' = Append(downloads, File("client", ideas[i].id, format))
                    /\ notice' = showNotice("success", "Exported as ." \o format)
                    /\ UNCHANGED errorByIdeaId
               ELSE /\ errorByIdeaId' =
                            setIdeaError(errorByIdeaId, ideas[i].id,
                                         "Save the idea before exporting in this format.")
                    /\ UNCHANGED <<downloads, notice>>
            /\ UNCHANGED <<busyByIdeaId, exportCalls>>
       ELSE /\ errorByIdeaId' = setIdeaError(errorByIdeaId, ideas[i].id, "")
            /\ busyByIdeaId' = setIdeaBusy(busyByIdeaId, ideas[i].id, "exporting", TRUE)
            /\ exportCalls' = exportCalls \cup
                    {[n |-> nActs + 1, id |-> ideas[i].id, format |-> format]}
            /\ UNCHANGED <<downloads, notice>>
    /\ UNCHANGED <<topic, count, ideas, generationStatus, generationError,
                   savedIdeas, savedStatus, savedError, loadCall, genCalls,
                   saveCalls, shareCalls, clipboard, nextId, now, nGenerate,
                   drawn>>

\* faulty variant of ExportResolve: the export is stamped on the record
ExportResolveStampsRecord(c) ==
    /\ c \in exportCalls
    /\ exportCalls' = exportCalls \ {c}
    /\ downloads' = Append(downloads, File("remote", c.id, c.format))
    /\ notice' = showNotice("success", "Exported " \o c.format)
    /\ busyByIdeaId' = setIdeaBusy(busyByIdeaId, c.id, "exporting", FALSE)
    /\ ideas' = [k \in 1..Len(ideas) |->
                    IF ideas[k].id = c.id
                    THEN [ideas[k] EXCEPT !.savedAt = toISOString(now)]
                    ELSE ideas[k]]
    /\ UNCHANGED <<topic, count, generationStatus, generationError,
                   savedIdeas, savedStatus, savedError, errorByIdeaId, loadCall,
                   genCalls, saveCalls, shareCalls, clipboard, nextId, now,
                   nGenerate, nActs, drawn>>

\* exportIdea() resolved: the rest of the try, then finally
ExportResolve(c) ==
    /\ c \in exportCalls
    /\ exportCalls' = exportCalls \ {c}
    /\ downloads' = Append(downloads, File("remote", c.id, c.format))
    /\ notice' = showNotice("success", "Exported " \o c.format)
    /\ busyByIdeaId' = setIdeaBusy(busyByIdeaId, c.id, "exporting", FALSE)
    /\ UNCHANGED <<topic, count, ideas, generationStatus, generationError,
                   savedIdeas, savedStatus, savedError, errorByIdeaId, loadCall,
                   genCalls, saveCalls, shareCalls, clipboard, nextId, now,
                   nGenerate, nActs, drawn>>

\* exportIdea() rejected: the catch, then finally
ExportReject(c, message) ==
    /\ c \in exportCalls
    /\ exportCalls' = exportCalls \ {c}
    /\ errorByIdeaId' = setIdeaError(errorByIdeaId, c.id, OrElse(message, "Failed to export."))
    /\ notice' = showNotice("error", "Export failed.")
    /\ busyByIdeaId' = setIdeaBusy(busyByIdeaId, c.id, "exporting", FALSE)
    /\ UNCHANGED <<topic, count, ideas, generationStatus, generationError,
                   savedIdeas, savedStatus, savedError, loadCall, genCalls,
                   saveCalls, shareCalls, clipboard, downloads, nextId, now,
                   nGenerate, nActs, drawn>>

---------------------------------------------------------------------------
(* The session.                                                            *)

\* the bodies generateIdeas() resolves to in a session
SessionBodies ==
    { ArrayBody(l) : l \in SeqsUpTo({StrItem("a"), StrItem("")}, MaxBatch) }
        \cup { ObjectBody(OtherField, NoField) }

\* the count options selected in a session
SessionCounts == {3, 6}

Next ==
    \/ \E t \in Topics : setTopic(t)
    \/ \E c \in SessionCounts : setCount(c)
    \/ NoticeTimeout
    \/ onGenerate
    \/ \E c \in genCalls, result \in SessionBodies : GenerateResolve(c, result)
    \/ \E c \in genCalls, m \in ErrorMessages : GenerateReject(c, m)
    \/ \E data \in ListBodies : LoadResolve(data)
    \/ \E m \in ErrorMessages : LoadReject(m)
    \/ \E i \in 1..Len(ideas) : onSave(i)
    \/ \E c \in saveCalls, data \in SaveBodies : SaveResolve(c, data)
    \/ \E c \in saveCalls, m \in ErrorMessages : SaveReject(c, m)
    \/ \E c \in saveCalls, data \in ListBodies : RefreshResolve(c, data)
    \/ \E c \in saveCalls : RefreshReject(c)
    \/ \E i \in 1..Len(ideas) : onShare(i)
    \/ \E c \in shareCalls, data \in ShareBodies : ShareResolve(c, data)
    \/ \E c \in shareCalls : CopyResolve(c)
    \/ \E c \in shareCalls, m \in ErrorMessages : ShareReject(c, m)
    \/ \E i \in 1..Len(ideas), f \in ButtonFormats : onExport(i, f)
    \/ \E c \in exportCalls : ExportResolve(c)
    \/ \E c \in exportCalls, m \in ErrorMessages : ExportReject(c, m)

Spec == Init /\ [][Next]_vars

---------------------------------------------------------------------------
(* One generation, over every response shape: the form is filled in, the   *)
(* response the remote service will give is fixed in advance, and the      *)
(* handler runs on it.                                                     *)

NormItems ==
    { StrItem("a"), StrItem("b"), StrItem(""),
      ObjItem("a", Absent), ObjItem("b", Absent), ObjItem("", "b"),
      ObjItem(Absent, Absent), NullItem }

NormLists == SeqsUpTo(NormItems, MaxItems)

\* the bodies generateIdeas() resolves to
GenBodies ==
    { ArrayBody(l) : l \in NormLists }
        \cup { ObjectBody(ArrField(l), NoField) : l \in NormLists }
        \cup { ObjectBody(NoField, ArrField(l)) : l \in NormLists }
        \cup { ObjectBody(ArrField(<<>>), ArrField(l)) : l \in NormLists }
        \cup { ObjectBody(ArrField(l), ArrField(<<StrItem("b")>>)) : l \in NormLists }
        \cup { NullBody, ObjectBody(OtherField, NoField),
               ObjectBody(NoField, OtherField) }

NormTopics == { <<" ", "a", "b">>, <<" ", "a", "b", "c", " ">> }

NormInit == \E t \in NormTopics, c \in Counts, d \in GenBodies : Start(t, c, d)

NormNext ==
    \/ nGenerate = 0 /\ onGenerate
    \/ \E c \in genCalls : GenerateResolve(c, drawn)

NormSpec == NormInit /\ [][NormNext]_vars

---------------------------------------------------------------------------
(* The session with onExport taken as an operation: besides the two formats *)
(* the Export buttons pass, it is called with the remaining format.         *)

OperationNext ==
    \/ Next
    \/ \E i \in 1..Len(ideas), f \in Formats \ ButtonFormats : onExport(i, f)

OperationSpec == Init /\ [][OperationNext]_vars

---------------------------------------------------------------------------
(* The session in which every call completes: request() settles each fetch  *)
(* with a response, a failure or, when its timer fires, the timeout's       *)
(* failure; the clipboard write settles likewise.                           *)

\* a pending generateIdeas() settles
GenerateSettles ==
    \/ \E c \in genCalls, result \in SessionBodies : GenerateResolve(c, result)
    \/ \E c \in genCalls, m \in ErrorMessages : GenerateReject(c, m)

\* a pending saveIdea() or refresh listSavedIdeas() settles
SaveSettles ==
    \/ \E c \in saveCalls, data \in SaveBodies : SaveResolve(c, data)
    \/ \E c \in saveCalls, m \in ErrorMessages : SaveReject(c, m)
    \/ \E c \in saveCalls, data \in ListBodies : RefreshResolve(c, data)
    \/ \E c \in saveCalls : RefreshReject(c)

\* a pending shareIdea() or copyToClipboard() settles
ShareSettles ==
    \/ \E c \in shareCalls, data \in ShareBodies : ShareResolve(c, data)
    \/ \E c \in shareCalls : CopyResolve(c)
    \/ \E c \in shareCalls, m \in ErrorMessages : ShareReject(c, m)

\* a pending exportIdea() settles
ExportSettles ==
    \/ \E c \in exportCalls : ExportResolve(c)
    \/ \E c \in exportCalls, m \in ErrorMessages : ExportReject(c, m)

\* the form filled in with a topic that passes the validation
LiveInit == Start(<<" ", "a", "b", "c", " ">>, 6, NullBody)

\* the steps that issue and settle calls (the edits of the form and the
\* notice's timer touch neither a call nor a flag)
LiveNext ==
    \/ onGenerate
    \/ GenerateSettles
    \/ \E data \in ListBodies : LoadResolve(data)
    \/ \E m \in ErrorMessages : LoadReject(m)
    \/ \E i \in 1..Len(ideas) : onSave(i)
    \/ SaveSettles
    \/ \E i \in 1..Len(ideas) : onShare(i)
    \/ ShareSettles
    \/ \E i \in 1..Len(ideas), f \in ButtonFormats : onExport(i, f)
    \/ ExportSettles

LiveSpec ==
    /\ LiveInit
    /\ [][LiveNext]_vars
    /\ WF_vars(GenerateSettles)
    /\ WF_vars(SaveSettles)
    /\ WF_vars(ShareSettles)
    /\ WF_vars(ExportSettles)

---------------------------------------------------------------------------
(* Properties.                                                             *)

TextsOf(recs) == [k \in 1..Len(recs) |-> recs[k].text]

\* the calls of one kind in flight for the record with local id `id`
InFlight(calls, id) == { c \in calls : c.id = id }

\* the first of {direct array, `ideas`, `items`} that holds any element
FirstNonEmptySource(body) ==
    IF body.kind = "array" /\ body.arr # <<>> THEN body.arr
    ELSE IF body.ideas.kind = "array" /\ body.ideas.arr # <<>> THEN body.ideas.arr
    ELSE IF body.items.kind = "array" /\ body.items.arr # <<>> THEN body.items.arr
    ELSE <<>>

\* the non-empty idea texts a response carries, in order
AvailableTexts(body) ==
    LET l == FirstNonEmptySource(body)
    IN  SelectSeq([k \in 1..Len(l) |-> ItemText(l[k])], Truthy)

\* the three shapes of one list of idea texts
AsArray(ts) == ArrayBody([k \in 1..Len(ts) |-> StrItem(ts[k])])

AsIdeas(ts) == ObjectBody(ArrField([k \in 1..Len(ts) |-> StrItem(ts[k])]), NoField)

AsItems(ts) == ObjectBody(NoField, ArrField([k \in 1..Len(ts) |-> ObjItem(ts[k], Absent)]))

TextLists == SeqsUpTo({"a", "b"}, MaxItems)

\* C1: when the response (or failure) of a Generate call arrives after a newer
\* Generate call was issued, it is discarded: the record collection and the
\* generation status stay as they are.
C1_StaleGenerateDiscarded ==
    [][\A c \in genCalls :
            (c.n < nGenerate /\ c \notin genCalls')
                => (ideas' = ideas /\ generationStatus' = generationStatus)]_vars

C3_ShareNotSavedFailsLocally ==
    [][\A i \in 1..Len(ideas) :
            (onShare(i) /\ ~Truthy(ideas[i].savedId)) =>
                /\ ideas[i].id \in DOMAIN errorByIdeaId'
                /\ errorByIdeaId'[ideas[i].id] = "Save the idea before sharing."
                /\ shareCalls' = shareCalls
                /\ saveCalls' = saveCalls
                /\ exportCalls' = exportCalls
                /\ genCalls' = genCalls
                /\ busyByIdeaId' = busyByIdeaId
                /\ ideas' = ideas]_vars

\* an unsaved record carrying the error of a refused Share, nothing in flight for it
C3_Witness ==
    \E i \in 1..Len(ideas) :
        /\ ~Truthy(ideas[i].savedId)
        /\ ErrorOf(ideas[i].id) = "Save the idea before sharing."
        /\ InFlight(shareCalls, ideas[i].id) = {}
        /\ ~BusyOf(ideas[i].id).sharing

\* C4 as stated: when the refresh after a successful Save fails, the saved
\* list keeps its contents and the panel's status becomes "error".
C4_RefreshFailureMarksUnavailable ==
    [][\A c \in saveCalls :
            RefreshReject(c) => (savedIdeas' = savedIdeas /\ savedStatus' = "error")]_vars

\* C4 amended: when the refresh after a successful Save fails, the saved list,
\* the panel's status and its error message all stay exactly as they were.
C4_RefreshFailureIgnored ==
    [][\A c \in saveCalls :
            RefreshReject(c) =>
                /\ savedIdeas' = savedIdeas
                /\ savedStatus' = savedStatus
                /\ savedError' = savedError]_vars

\* a record was saved and its Save has finished while the panel is still
\* "loading": the refresh after the Save failed (a refresh that succeeds sets
\* "success", and nothing sets "loading" again)
C4_Witness ==
    /\ savedStatus = "loading"
    /\ saveCalls = {}
    /\ \E k \in 1..Len(ideas) :
            /\ Truthy(ideas[k].savedId)
            /\ ~BusyOf(ideas[k].id).saving

\* C5: a step never changes the remote identifier of a record that already has
\* one (a second Save keeps the identifier of the first, whatever the response
\* carries).
C5_SecondSaveKeepsRemoteId ==
    [][\A k \in 1..Len(ideas) :
            (Truthy(ideas[k].savedId) /\ k <= Len(ideas') /\ ideas'[k].id = ideas[k].id)
                => ideas'[k].savedId = ideas[k].savedId]_vars

\* C6: in every reachable state every record has savedId set if and only if
\* its savedAt is set.
C6_RemoteIdIffSavedAt ==
    \A k \in 1..Len(ideas) : Truthy(ideas[k].savedId) <=> Truthy(ideas[k].savedAt)

\* a record saved by a response that carried no identifier: its own local id
\* stands in
C6_Witness ==
    \E k \in 1..Len(ideas) :
        ideas[k].savedId = ideas[k].id /\ Truthy(ideas[k].savedAt)

\* C7: once a record of the collection has a remote identifier, no step clears
\* it while the record stays in the collection.
C7_SavedIsOneWay ==
    [][\A k \in 1..Len(ideas), j \in 1..Len(ideas') :
            (ideas'[j].id = ideas[k].id /\ Truthy(ideas[k].savedId))
                => Truthy(ideas'[j].savedId)]_vars

\* a saved record on which a later operation has failed
C7_Witness ==
    \E k \in 1..Len(ideas) :
        Truthy(ideas[k].savedId) /\ ErrorOf(ideas[k].id) = TimedOutMessage

\* C8: after a successful Generate the collection holds exactly
\* min(count, number of non-empty items of the response) records, each with a
\* non-empty text, in response order, with pairwise distinct local ids.
C8_GenerateYieldsMinCountRecords ==
    generationStatus = "success" =>
        /\ Len(ideas) = Min(count, Len(AvailableTexts(drawn)))
        /\ \A k \in 1..Len(ideas) : Truthy(ideas[k].text)
        /\ TextsOf(ideas) = Take(AvailableTexts(drawn), Len(ideas))
        /\ \A j, k \in 1..Len(ideas) : j # k => ideas[j].id # ideas[k].id

\* C9: a response carrying a list of texts as {ideas: [...strings]} or as
\* {items: [{text}, ...]} yields the record texts the bare array of the same
\* strings yields.
C9_ShapesNormalizeAlike ==
    generationStatus = "success" =>
        \A ts \in TextLists :
            drawn \in {AsIdeas(ts), AsItems(ts)}
                => TextsOf(ideas) = NormalizedTexts(AsArray(ts), count)

\* the {items: [{text: "a"}, {text: "b"}]} response, normalized to a, b
C9_Witness ==
    /\ generationStatus = "success"
    /\ drawn = AsItems(<<"a", "b">>)
    /\ TextsOf(ideas) = <<"a", "b">>

\* C10: the records come from the first non-empty source in the order direct
\* array, `ideas`, `items`; an empty `ideas` list beside a non-empty `items`
\* list yields the records of `items`.
C10_FirstNonEmptySourceWins ==
    (generationStatus = "success" /\ drawn.kind = "object"
        /\ drawn.ideas = ArrField(<<>>) /\ drawn.items.kind = "array")
            => TextsOf(ideas) = Take(AvailableTexts(drawn), SliceCount(count))

\* C11: when a Generate call fails, the record collection is empty afterwards
\* and the generation error is set: no record of an earlier batch remains.
C11_GenerateFailureClears ==
    [][\A c \in genCalls, m \in ErrorMessages :
            GenerateReject(c, m) =>
                /\ ideas' = <<>>
                /\ generationStatus' = "error"
                /\ Truthy(generationError')]_vars

HasError(errs, id) == id \in DOMAIN errs /\ Truthy(errs[id])

\* the record with local id `id` is in the collection without remote identifier
Unsaved(id) == \E k \in 1..Len(ideas) : ideas[k].id = id /\ ~Truthy(ideas[k].savedId)

\* C13: every failure of Generate, Save, Share or Export (topic too short,
\* record not saved, request failure or timeout, no share URL in the response)
\* leaves an error state (the generation error, or the record's error) and
\* raises an error notification.
C13_FailuresSetErrorAndNotify ==
    [][/\ ((onGenerate /\ Len(Trim(topic)) < 3)
                \/ \E c \in genCalls, m \in ErrorMessages : GenerateReject(c, m))
            => (generationStatus' = "error" /\ Truthy(generationError')
                    /\ notice'.type = "error")
       /\ \A i \in 1..Len(ideas) :
            (~Truthy(ideas[i].savedId)
                /\ (onShare(i) \/ \E f \in Formats \ {"txt", "json"} : onExport(i, f)))
            => (HasError(errorByIdeaId', ideas[i].id) /\ notice'.type = "error")
       /\ \A c \in saveCalls, m \in ErrorMessages :
            SaveReject(c, m) => (HasError(errorByIdeaId', c.id) /\ notice'.type = "error")
       /\ \A c \in shareCalls, m \in ErrorMessages :
            ShareReject(c, m) => (HasError(errorByIdeaId', c.id) /\ notice'.type = "error")
       /\ \A c \in shareCalls, data \in ShareBodies :
            (ShareResolve(c, data) /\ InFlight(shareCalls', c.id) = {})
                => (HasError(errorByIdeaId', c.id) /\ notice'.type = "error")
       /\ \A c \in exportCalls, m \in ErrorMessages :
            ExportReject(c, m) => (HasError(errorByIdeaId', c.id) /\ notice'.type = "error")
      ]_vars

\* C14: when saveIdea() fails, the record collection (savedId and savedAt
\* included) stays as it was, the record's error is set, the activation ends
\* without a refresh of the saved list, and the record's saving flag is cleared.
C14_SaveFailureKeepsRecord ==
    [][\A c \in saveCalls, m \in ErrorMessages :
            SaveReject(c, m) =>
                /\ ideas' = ideas
                /\ HasError(errorByIdeaId', c.id)
                /\ saveCalls' = saveCalls \ {c}
                /\ savedIdeas' = savedIdeas
                /\ savedStatus' = savedStatus
                /\ c.id \in DOMAIN busyByIdeaId'
                /\ ~busyByIdeaId'[c.id].saving]_vars

\* an unsaved record whose Save failed: only a Save issues a call for an
\* unsaved record, so the failure's message comes from saveIdea()
C14_Witness ==
    \E k \in 1..Len(ideas) :
        /\ ~Truthy(ideas[k].savedId)
        /\ ~Truthy(ideas[k].savedAt)
        /\ ErrorOf(ideas[k].id) = TimedOutMessage
        /\ ~BusyOf(ideas[k].id).saving
        /\ InFlight(saveCalls, ideas[k].id) = {}

\* the kind of the operation that left the error of record `id`, where the
\* message tells: the texts only onShare and only onExport set, and a request
\* failure on an unsaved record (only onSave issues a request for one)
ErrorLeftBy(id) ==
    IF ErrorOf(id) \in {"Save the idea before sharing.",
                        "Backend did not return a share URL."} THEN "share"
    ELSE IF ErrorOf(id) = "Save the idea before exporting in this format." THEN "export"
    ELSE IF ErrorOf(id) = TimedOutMessage /\ Unsaved(id) THEN "save"
    ELSE "unknown"

\* the step starts, advances or completes a Save / Share / Export on record `id`
SaveStepOn(id) == InFlight(saveCalls', id) # InFlight(saveCalls, id)

ShareStepOn(id) ==
    \/ InFlight(shareCalls', id) # InFlight(shareCalls, id)
    \/ \E i \in 1..Len(ideas) : ideas[i].id = id /\ onShare(i)

ExportStepOn(id) ==
    \/ InFlight(exportCalls', id) # InFlight(exportCalls, id)
    \/ \E i \in 1..Len(ideas), f \in Formats : ideas[i].id = id /\ onExport(i, f)

\* C15: the error an operation of one kind left on a record is not cleared or
\* overwritten by a step of an operation of another kind on that record.
C15_ErrorKeptPerKind ==
    [][\A id \in DOMAIN errorByIdeaId :
            /\ (ErrorLeftBy(id) = "save" /\ (ShareStepOn(id) \/ ExportStepOn(id)))
                    => errorByIdeaId'[id] = errorByIdeaId[id]
            /\ (ErrorLeftBy(id) = "share" /\ (SaveStepOn(id) \/ ExportStepOn(id)))
                    => errorByIdeaId'[id] = errorByIdeaId[id]
            /\ (ErrorLeftBy(id) = "export" /\ (SaveStepOn(id) \/ ShareStepOn(id)))
                    => errorByIdeaId'[id] = errorByIdeaId[id]]_vars

\* the flags of record `id` in the map `b`
BusyIn(b, id) == IF id \in DOMAIN b THEN b[id] ELSE NoBusy

\* C16: whatever the saving flag of a record on display, Share is accepted
\* while its sharing flag is down and Export while its exporting flag is down;
\* and a step changes the flag of (record, kind) only when it starts or
\* finishes an operation of that kind on that record.
C16_BusyFlagsPerKind ==
    /\ [](\A i \in Displayed :
            (nActs < MaxActs /\ BusyOf(ideas[i].id).saving) =>
                /\ ~BusyOf(ideas[i].id).sharing => ENABLED onShare(i)
                /\ ~BusyOf(ideas[i].id).exporting =>
                        \A f \in ButtonFormats : ENABLED onExport(i, f))
    /\ [][\A id \in DOMAIN busyByIdeaId' :
            /\ BusyIn(busyByIdeaId', id).saving # BusyOf(id).saving => SaveStepOn(id)
            /\ BusyIn(busyByIdeaId', id).sharing # BusyOf(id).sharing => ShareStepOn(id)
            /\ BusyIn(busyByIdeaId', id).exporting # BusyOf(id).exporting
                    => ExportStepOn(id)]_vars

\* a record with a Save and a Share in flight at once, both flags up
C16_Witness ==
    \E i \in 1..Len(ideas) :
        /\ InFlight(saveCalls, ideas[i].id) # {}
        /\ InFlight(shareCalls, ideas[i].id) # {}
        /\ BusyOf(ideas[i].id).saving
        /\ BusyOf(ideas[i].id).sharing
        /\ ~BusyOf(ideas[i].id).exporting

\* the response carries no URL under url, share_url, shareUrl or link
NoShareUrlFields(data) ==
    /\ ~Truthy(data.url)
    /\ ~Truthy(data.share_url)
    /\ ~Truthy(data.shareUrl)
    /\ ~Truthy(data.link)

\* C17: when shareIdea() answers without a URL under url, share_url, shareUrl
\* or link, the record's error becomes the "no share URL" message, the
\* clipboard is not written, the Share ends and the sharing flag is cleared.
C17_NoShareUrlFails ==
    [][\A c \in shareCalls, data \in ShareBodies :
            (ShareResolve(c, data) /\ NoShareUrlFields(data)) =>
                /\ c.id \in DOMAIN errorByIdeaId'
                /\ errorByIdeaId'[c.id] = "Backend did not return a share URL."
                /\ clipboard' = clipboard
                /\ InFlight(shareCalls', c.id) = {}
                /\ ~BusyIn(busyByIdeaId', c.id).sharing]_vars

\* a saved record whose Share was answered without URL
C17_Witness ==
    \E k \in 1..Len(ideas) :
        /\ Truthy(ideas[k].savedId)
        /\ ErrorOf(ideas[k].id) = "Backend did not return a share URL."
        /\ ~BusyOf(ideas[k].id).sharing
        /\ InFlight(shareCalls, ideas[k].id) = {}
        /\ clipboard = Absent

\* C18: a step of Share or Export (the click, the response, the copy, the
\* failure) leaves the record collection and the saved list as they were.
C18_ShareExportLeaveRecords ==
    [][(\/ shareCalls' # shareCalls
        \/ exportCalls' # exportCalls
        \/ clipboard' # clipboard
        \/ downloads' # downloads
        \/ \E i \in 1..Len(ideas) : onShare(i)
        \/ \E i \in 1..Len(ideas), f \in Formats : onExport(i, f))
            => (ideas' = ideas /\ savedIdeas' = savedIdeas)]_vars

\* a saved record still in the collection after its remote export was downloaded
C18_Witness ==
    \E i \in 1..Len(ideas), k \in 1..Len(downloads) :
        /\ downloads[k] = File("remote", ideas[i].id, "txt")
        /\ Truthy(ideas[i].savedId)
        /\ ~BusyOf(ideas[i].id).exporting

\* the first of id, idea.id, idea_id, ideaId the response carries
FirstPresentId(data) ==
    IF Truthy(data.id) THEN data.id
    ELSE IF Truthy(data.ideaDotId) THEN data.ideaDotId
    ELSE IF Truthy(data.idea_id) THEN data.idea_id
    ELSE IF Truthy(data.ideaId) THEN data.ideaId
    ELSE Absent

\* C19: when a Save of an unsaved record succeeds, the record's savedId becomes
\* the first identifier the response carries under id, idea.id, idea_id,
\* ideaId, and the record's own local id when it carries none.
C19_SaveIdFromResponseOrLocal ==
    [][\A c \in saveCalls, data \in SaveBodies, k \in 1..Len(ideas) :
            (SaveResolve(c, data) /\ ideas[k].id = c.id /\ ~Truthy(ideas[k].savedId))
                => ideas'[k].savedId =
                        IF FirstPresentId(data) = Absent THEN ideas[k].id
                        ELSE FirstPresentId(data)]_vars

\* two saved records, one under its own local id and one under a remote id
C19_Witness ==
    \E j, k \in 1..Len(ideas) :
        /\ ideas[j].savedId = ideas[j].id
        /\ ideas[k].savedId \in {"r1", "r2"}
        /\ Truthy(ideas[j].savedAt)
        /\ Truthy(ideas[k].savedAt)

\* C20: in every reachable state, a call of kind save, share or export in
\* flight for a record implies that the record's flag of that kind is up.
C20_InFlightImpliesBusy ==
    /\ \A c \in saveCalls : BusyOf(c.id).saving
    /\ \A c \in shareCalls : BusyOf(c.id).sharing
    /\ \A c \in exportCalls : BusyOf(c.id).exporting

\* an export in flight for a record whose Save has finished
C20_Witness ==
    \E c \in exportCalls :
        /\ BusyOf(c.id).exporting
        /\ ~BusyOf(c.id).saving
        /\ InFlight(saveCalls, c.id) = {}

\* the local ids a session mints
LocalIds == { makeLocalId(n) : n \in 1..(MaxGenerate * MaxBatch) }

\* C21: when every call completes, every flag that is up for a (record, kind)
\* is eventually down again, and a generation that is loading eventually is
\* not.
C21_BusyEventuallyCleared ==
    /\ \A id \in LocalIds : BusyOf(id).saving ~> ~BusyOf(id).saving
    /\ \A id \in LocalIds : BusyOf(id).sharing ~> ~BusyOf(id).sharing
    /\ \A id \in LocalIds : BusyOf(id).exporting ~> ~BusyOf(id).exporting
    /\ (generationStatus = "loading") ~> (generationStatus # "loading")

\* every flag of a record is down again after its Save failed at the refresh
\* and its Share went through
C21_Witness ==
    \E k \in 1..Len(ideas) :
        /\ ideas[k].id \in DOMAIN busyByIdeaId
        /\ busyByIdeaId[ideas[k].id] = NoBusy
        /\ Truthy(ideas[k].savedId)
        /\ clipboard # Absent
        /\ saveCalls = {}
        /\ shareCalls = {}
        /\ generationStatus = "success"

\* C22: a response to an older listing call never overwrites the result of a
\* newer one.  The mount effect's listSavedIdeas() is the oldest listing call
\* of a session, and the saved list's status is "success" under it only once a
\* refresh (issued later) has answered: the mount call's answer then leaves
\* the saved list as the refresh set it.
C22_OlderListingNeverOverwrites ==
    [][(loadCall /\ ~loadCall' /\ savedStatus = "success")
            => savedIdeas' = savedIdeas]_vars

\* C23: the response to a Save whose record is no longer in the collection
\* leaves the collection as it is, and a record changes only in the step that
\* answers a Save issued for that very record.
C23_LateSaveLeavesNewBatch ==
    [][/\ \A c \in saveCalls :
            (SaveStepOn(c.id) /\ \A k \in 1..Len(ideas) : ideas[k].id # c.id)
                => ideas' = ideas
       /\ \A k \in 1..Len(ideas) :
            (k <= Len(ideas') /\ ideas'[k].id = ideas[k].id /\ ideas'[k] # ideas[k])
                => \E c \in saveCalls :
                        c.id = ideas[k].id /\ c.phase = "save" /\ c \notin saveCalls']_vars

\* the last notice is the "Saved." of a Save whose record was discarded: the
\* collection holds a later batch, none of its records saved, and the Save's
\* refresh is still in flight
C23_Witness ==
    /\ ideas # <<>>
    /\ \A k \in 1..Len(ideas) : ~Truthy(ideas[k].savedId)
    /\ notice = showNotice("success", "Saved.")
    /\ \E c \in saveCalls :
            c.phase = "list" /\ \A k \in 1..Len(ideas) : ideas[k].id # c.id

====
